---- MODULE Spec2Model ----
(***************************************************************************)
(* Model of scripts/update_readme.py: the marker scanner/replacer, the     *)
(* badge formatter, the repository reconciler and the orchestrator main(). *)
(*                                                                         *)
(* Text is modelled as a sequence of lexemes.  A lexeme is a record        *)
(*   [t, k, ws]                                                            *)
(* t = "START"/"END": a sentinel comment <!--{ws}PROJECTS:k:START{ws}-->   *)
(*     written with ws whitespace characters at each of the two places     *)
(*     where MARKER_PAIR_RE has \s*; ws = 1 is the single-space form that  *)
(*     replace_between_markers builds with its f-strings.                  *)
(* t = "CH": one character k ("LF" is the line break, "\\" the backslash)  *)
(*     or one fixed literal piece of the badge template.                   *)
(* t = "QSTART"/"QEND"/"QCH": the percent-encoded form of a lexeme, as     *)
(*     urllib.parse.quote(.., safe="") writes it.                          *)
(***************************************************************************)
EXTENDS Integers, Sequences, FiniteSets, TLC

VARIABLES
    \* ---- one run of main() ----
    pc,             \* position in main()
    projects_file,  \* projects.json on disk: "absent", "invalid", "notlist", "list"
    data,           \* the parsed list (when projects_file = "list")
    readme_file,    \* README.md on disk: [present, text]
    pat,            \* GH_PAT is non-empty
    readme,         \* text read at step 2
    marker_keys,    \* marker_keys_in_readme
    keys_todo,      \* keys the loop of step 6 has not visited yet
    badges_by_key,  \* key -> sequence of badges
    seen_by_key,    \* key -> set of repos
    repos_needed,   \* sequence of repos
    idx,            \* loop index of step 4
    ridx,           \* loop index of step 5
    requests,       \* the HTTP requests issued so far, with their outcomes
    new_readme,     \* new_readme of step 6
    writes,         \* number of times README.md was opened for writing
    exit_code,      \* process exit status, -1 while running
    reached,        \* the numbered steps of main() entered so far
    key_order,      \* the keys step 6 has visited, in the order of the visits
    \* ---- replace_between_markers applied to drawn inputs ----
    rpc, rdoc, rkey, rinner, rout1, rout2

mainVars == <<pc, projects_file, data, readme_file, pat, readme, marker_keys,
              keys_todo, badges_by_key, seen_by_key, repos_needed, idx, ridx,
              requests, new_readme, writes, exit_code, reached, key_order>>
replVars == <<rpc, rdoc, rkey, rinner, rout1, rout2>>
vars == <<mainVars, replVars>>

----------------------------------------------------------------------------
(* Bounds *)
MaxEntries == 2      \* length of the projects.json list
MaxDocLen == 3       \* lexemes of a drawn document (SpecReplace)
MaxInnerLen == 3     \* lexemes of a drawn inner_text (SpecReplace)

----------------------------------------------------------------------------
(* Lexemes *)
Start(k, ws) == [t |-> "START", k |-> k, ws |-> ws]
End(k, ws) == [t |-> "END", k |-> k, ws |-> ws]
Ch(c) == [t |-> "CH", k |-> c, ws |-> 0]
LF == Ch("LF")
BS == Ch("\\")

SubSeqFrom(s, i) == SubSeq(s, i, Len(s))
SeqsUpTo(S, n) == UNION {[1..m -> S] : m \in 0..n}

\* README_PATH / PROJECTS_JSON contents are inputs; GH_OWNER is a fixed string
GH_OWNER == Ch("Thhundder")

\* LANG_MAP after str(raw).strip().lower(): alias -> marker_key ("" = no entry)
StripLower(raw) ==
    CASE raw = " C " -> "c"
      [] raw = "c" -> "c"
      [] raw = "Py" -> "py"
      [] OTHER -> raw

LANG_MAP(alias) ==
    CASE alias = "c" -> "C"
      [] alias = "python" -> "python"
      [] alias = "py" -> "python"
      [] OTHER -> "None"

normalize_language(raw) ==
    IF raw = "" THEN "None" ELSE LANG_MAP(StripLower(raw))

----------------------------------------------------------------------------
(* build_badge_md *)

\* characters quote(.., safe="") leaves alone: letters, digits, "_.-~"
Unreserved == {"x", "n", "1", "I"}

QuoteLexeme(tok) ==
    IF tok.t = "CH" /\ tok.k \in Unreserved THEN tok
    ELSE [tok EXCEPT !.t = CASE tok.t = "CH" -> "QCH"
                              [] tok.t = "START" -> "QSTART"
                              [] tok.t = "END" -> "QEND"
                              [] OTHER -> tok.t]

quote(name) == [i \in 1..Len(name) |-> QuoteLexeme(name[i])]

build_badge_md(name, owner, repo) ==
    <<Ch("[![")>> \o name
        \o <<Ch("](https://img.shields.io/static/v1?label=&message=")>>
        \o quote(name)
        \o <<Ch("&color=000605&logo=github&logoColor=FFFFFF&labelColor=000605)](https://github.com/"),
             owner, Ch("/")>>
        \o repo \o <<Ch(")")>>

RECURSIVE JoinBadges(_)
\* " ".join(badges)
JoinBadges(badges) ==
    IF badges = <<>> THEN <<>>
    ELSE IF Len(badges) = 1 THEN badges[1]
    ELSE badges[1] \o <<Ch(" ")>> \o JoinBadges(Tail(badges))

----------------------------------------------------------------------------
(* replace_between_markers *)

Ok(text) == [ok |-> TRUE, text |-> text]
Raised == [ok |-> FALSE, text |-> <<>>]

\* positions of a lexeme in a text, at or after position from
Positions(text, tok, from) == {i \in from..Len(text) : text[i] = tok}
Min(S) == CHOOSE m \in S : \A n \in S : m <= n

AsciiLetters == {"x", "n", "I"}

RECURSIVE ExpandTemplate(_, _)
\* pattern.sub(replacement, ...) with a string replacement: the template's
\* backslash escapes are processed; group1 is what (.*?) matched
ExpandTemplate(repl, group1) ==
    IF repl = <<>> THEN Ok(<<>>)
    ELSE IF repl = <<BS>> THEN Raised   \* bad escape (end of pattern)
    ELSE IF repl[1] # BS THEN
        LET rest == ExpandTemplate(Tail(repl), group1)
        IN  IF rest.ok THEN Ok(<<repl[1]>> \o rest.text) ELSE Raised
    ELSE
        LET c == repl[2]
            octal == c = Ch("1") /\ Len(repl) >= 4 /\ repl[3] = Ch("1") /\ repl[4] = Ch("1")
            twoDigits == c = Ch("1") /\ Len(repl) >= 3 /\ repl[3] = Ch("1") /\ ~octal
            used == IF octal THEN 4 ELSE 2
            out == CASE c = BS -> <<BS>>
                     [] c = Ch("n") -> <<LF>>
                     [] octal -> <<Ch("I")>>
                     [] c = Ch("1") -> group1
                     [] OTHER -> <<BS, c>>
            bad == twoDigits \/ (c.t = "CH" /\ c.k \in AsciiLetters \ {"n"})
            rest == ExpandTemplate(SubSeqFrom(repl, used + 1), group1)
        IN  IF bad \/ ~rest.ok THEN Raised ELSE Ok(out \o rest.text)

replace_between_markers(readme_text, marker_key, inner_text) ==
    LET start == Start(marker_key, 1)
        end == End(marker_key, 1)
        starts == Positions(readme_text, start, 1)
        i == Min(starts)
        ends == IF starts = {} THEN {} ELSE Positions(readme_text, end, i + 1)
        j == Min(ends)
        replacement == <<start>> \o inner_text \o <<end>>
        expanded == ExpandTemplate(replacement, SubSeq(readme_text, i + 1, j - 1))
    IN  IF ends = {} THEN Ok(readme_text)
        ELSE IF ~expanded.ok THEN Raised
        ELSE Ok(SubSeq(readme_text, 1, i - 1) \o expanded.text
                    \o SubSeqFrom(readme_text, j + 1))

----------------------------------------------------------------------------
(* collect_readme_marker_keys *)

\* MARKER_PAIR_RE at position i: a start sentinel (any whitespace) of some key
\* and, after it, the nearest end sentinel (any whitespace) of the same key
PairEnds(text, i) ==
    {j \in (i + 1)..Len(text) : text[j].t = "END" /\ text[j].k = text[i].k}
PairStarts(text, from) ==
    {i \in from..Len(text) : text[i].t = "START" /\ PairEnds(text, i) # {}}

RECURSIVE FindAllKeys(_, _)
\* MARKER_PAIR_RE.findall: leftmost matches that do not overlap
FindAllKeys(text, from) ==
    IF PairStarts(text, from) = {} THEN {}
    ELSE LET i == Min(PairStarts(text, from))
             j == Min(PairEnds(text, i))
         IN  {text[i].k} \cup FindAllKeys(text, j + 1)

collect_readme_marker_keys(readme_text) == FindAllKeys(readme_text, 1)

----------------------------------------------------------------------------
(* main: inputs *)

Obj(name, language, repo) ==
    [dict |-> TRUE, name |-> name, language |-> language, repo |-> repo]
NotDict == [dict |-> FALSE, name |-> <<>>, language |-> "", repo |-> <<>>]

Repo1 == <<Ch("foo-repo")>>
Repo2 == <<Ch("bar-repo")>>

\* the elements a projects.json list is drawn from
EntrySet ==
    { NotDict,                                        \* e.g. the number 1
      Obj(<<>>, "c", Repo1),                          \* no name
      Obj(<<Ch("x")>>, "Ruby", Repo1),                \* language not in LANG_MAP
      Obj(<<Ch("x")>>, " C ", Repo1),
      Obj(<<Ch("x")>>, "Py", Repo1),                  \* other key, same repo
      Obj(<<Start("python", 1)>>, "c", Repo2),        \* name holding sentinel text
      Obj(<<BS, Ch("x")>>, "c", Repo2) }              \* name holding "\x"

\* the README.md texts a run is started on
ReadmeSet ==
    { <<Ch("x")>>,
      <<Start("C", 1), Ch("x"), End("C", 1)>>,
      <<Start("C", 0), Ch("x"), End("C", 0)>>,
      <<Start("C", 1), End("C", 1), LF, Start("python", 1), Ch("x"), End("python", 1)>> }

CheckOutcomes == {"2xx", "404", "http_error", "url_error"}
CreateOutcomes == {"2xx", "422", "http_error", "url_error"}

ReplIdle ==
    /\ rpc = "idle" /\ rdoc = <<>> /\ rkey = "C" /\ rinner = <<>>
    /\ rout1 = [ok |-> FALSE, text |-> <<>>] /\ rout2 = [ok |-> FALSE, text |-> <<>>]

Init ==
    /\ ReplIdle
    /\ pc = "load"
    /\ projects_file \in {"absent", "invalid", "notlist", "list"}
    /\ data \in IF projects_file = "list" THEN SeqsUpTo(EntrySet, MaxEntries) ELSE {<<>>}
    /\ readme_file \in {[present |-> FALSE, text |-> <<>>]}
                        \cup {[present |-> TRUE, text |-> t] : t \in ReadmeSet}
    /\ pat \in BOOLEAN
    /\ readme = <<>> /\ marker_keys = {} /\ keys_todo = {}
    /\ badges_by_key = [k \in {} |-> <<>>] /\ seen_by_key = [k \in {} |-> {}]
    /\ repos_needed = <<>>
    /\ idx = 1 /\ ridx = 1 /\ requests = <<>> /\ new_readme = <<>>
    /\ writes = 0 /\ exit_code = -1 /\ reached = {} /\ key_order = <<>>

----------------------------------------------------------------------------
(* main: steps *)

\* sys.exit(1), or an exception nobody catches: the interpreter exits with 1
Exit(code) == pc' = "exit" /\ exit_code' = code

\* 1) Load projects.json
LoadProjects ==
    /\ pc = "load"
    /\ reached' = reached \cup {"load"}
    /\ IF projects_file \in {"absent", "invalid", "notlist"}
         THEN Exit(1)
         ELSE pc' = "read" /\ UNCHANGED exit_code
    /\ UNCHANGED <<projects_file, data, readme_file, pat, readme, marker_keys,
                   keys_todo, badges_by_key, seen_by_key, repos_needed, idx, ridx,
                   requests, new_readme, writes, key_order, replVars>>

\* 2) Read README
ReadReadme ==
    /\ pc = "read"
    /\ reached' = reached \cup {"read"}
    /\ IF ~readme_file.present
         THEN Exit(1) /\ UNCHANGED readme
         ELSE pc' = "scan" /\ readme' = readme_file.text /\ UNCHANGED exit_code
    /\ UNCHANGED <<projects_file, data, readme_file, pat, marker_keys,
                   keys_todo, badges_by_key, seen_by_key, repos_needed, idx, ridx,
                   requests, new_readme, writes, key_order, replVars>>

\* 3) Determine which marker keys exist in README
ScanMarkers ==
    /\ pc = "scan"
    /\ reached' = reached \cup {"scan"}
    /\ marker_keys' = collect_readme_marker_keys(readme)
    /\ pc' = IF data = <<>> THEN "ensure" ELSE "group"
    /\ UNCHANGED <<projects_file, data, readme_file, pat, readme,
                   keys_todo, badges_by_key, seen_by_key, repos_needed, idx, ridx,
                   requests, new_readme, writes, exit_code, key_order, replVars>>

\* repos_needed kept free of duplicates
TrackRepoOnce(needed, repo) ==
    IF \E i \in 1..Len(needed) : needed[i] = repo THEN needed ELSE Append(needed, repo)

\* repos_needed.append((GH_OWNER, repo))
TrackRepo(needed, repo) == Append(needed, repo)

\* 4) one iteration of the loop over data
GroupEntry ==
    /\ pc = "group"
    /\ reached' = reached \cup {"group"}
    /\ LET item == data[idx]
           key == normalize_language(item.language)
           skipped == item.name = <<>> \/ item.language = "" \/ item.repo = <<>>
                        \/ key = "None"
           badge == build_badge_md(item.name, GH_OWNER, item.repo)
           known == key \in DOMAIN badges_by_key
           badges0 == IF known THEN badges_by_key[key] ELSE <<>>
           seen0 == IF known THEN seen_by_key[key] ELSE {}
           fresh == item.repo \notin seen0
       IN  IF ~item.dict
             THEN \* item.get raises AttributeError
                  /\ Exit(1)
                  /\ UNCHANGED <<badges_by_key, seen_by_key, repos_needed, idx>>
             ELSE /\ pc' = IF idx = Len(data) THEN "ensure" ELSE "group"
                  /\ idx' = idx + 1
                  /\ UNCHANGED exit_code
                  /\ IF skipped
                       THEN UNCHANGED <<badges_by_key, seen_by_key, repos_needed>>
                       ELSE /\ badges_by_key' =
                                 [k \in DOMAIN badges_by_key \cup {key} |->
                                    IF k # key THEN badges_by_key[k]
                                    ELSE IF fresh THEN Append(badges0, badge) ELSE badges0]
                            /\ seen_by_key' =
                                 [k \in DOMAIN seen_by_key \cup {key} |->
                                    IF k # key THEN seen_by_key[k]
                                    ELSE seen0 \cup {item.repo}]
                            /\ repos_needed' = TrackRepo(repos_needed, item.repo)
    /\ UNCHANGED <<projects_file, data, readme_file, pat, readme, marker_keys,
                   keys_todo, ridx, requests, new_readme, writes, key_order, replVars>>

\* "if repos_needed: if GH_PAT:" with a token absent by mistake
ReconcileWithoutToken(needed, token) == needed # <<>>

\* 5) "if repos_needed:" and "if GH_PAT:"
ReconcileEnabled(needed, token) == needed # <<>> /\ token

\* 5) nothing to reconcile, or no token (a warning): on to step 6
SkipEnsure ==
    /\ pc = "ensure"
    /\ ~ReconcileEnabled(repos_needed, pat)
    /\ reached' = reached \cup {"ensure"}
    /\ pc' = "inject"
    /\ UNCHANGED <<projects_file, data, readme_file, pat, readme, marker_keys,
                   keys_todo, badges_by_key, seen_by_key, repos_needed, idx, ridx,
                   requests, new_readme, writes, exit_code, key_order, replVars>>

\* github_repo_exists taking every HTTPError for "not found"
RepoExistsLenient(outcome) ==
    CASE outcome = "2xx" -> "true"
      [] outcome \in {"404", "http_error"} -> "false"
      [] OTHER -> "raise"

\* github_repo_exists: "true", "false", or "raise"
github_repo_exists(outcome) ==
    CASE outcome = "2xx" -> "true"
      [] outcome = "404" -> "false"
      [] OTHER -> "raise"

\* github_create_repo: TRUE iff the POST came back 2xx
github_create_repo(outcome) == outcome = "2xx"

\* position after one iteration of "for owner, repo in repos_needed"
AfterRepo == IF ridx = Len(repos_needed) THEN "inject" ELSE "ensure"

\* 5) one iteration: the existence check
CheckRepo ==
    /\ pc = "ensure"
    /\ ReconcileEnabled(repos_needed, pat)
    /\ reached' = reached \cup {"ensure"}
    /\ \E outcome \in CheckOutcomes :
         /\ requests' = Append(requests, [method |-> "GET", repo |-> repos_needed[ridx],
                                           outcome |-> outcome])
         /\ IF github_repo_exists(outcome) = "false"
              THEN pc' = "create" /\ UNCHANGED ridx
              ELSE pc' = AfterRepo /\ ridx' = ridx + 1
    /\ UNCHANGED <<projects_file, data, readme_file, pat, readme, marker_keys,
                   keys_todo, badges_by_key, seen_by_key, repos_needed, idx,
                   new_readme, writes, exit_code, key_order, replVars>>

\* 5) same iteration: "if not exists: created = github_create_repo(...)"
CreateRepo ==
    /\ pc = "create"
    /\ \E outcome \in CreateOutcomes :
         /\ requests' = Append(requests, [method |-> "POST", repo |-> repos_needed[ridx],
                                           outcome |-> outcome])
         /\ github_create_repo(outcome) \in BOOLEAN
    /\ pc' = AfterRepo
    /\ ridx' = ridx + 1
    /\ UNCHANGED <<projects_file, data, readme_file, pat, readme, marker_keys,
                   keys_todo, badges_by_key, seen_by_key, repos_needed, idx,
                   new_readme, writes, exit_code, reached, key_order, replVars>>

\* 6) new_readme = readme
BeginInject ==
    /\ pc = "inject"
    /\ reached' = reached \cup {"inject"}
    /\ new_readme' = readme
    /\ keys_todo' = marker_keys
    /\ pc' = IF marker_keys = {} THEN "write" ELSE "loop"
    /\ UNCHANGED <<projects_file, data, readme_file, pat, readme, marker_keys,
                   badges_by_key, seen_by_key, repos_needed, idx, ridx,
                   requests, writes, exit_code, key_order, replVars>>

\* badges_by_key.get(key, []) joined with " "
InnerFor(badges, key) ==
    IF key \in DOMAIN badges THEN JoinBadges(badges[key]) ELSE <<>>

\* 6) one iteration of "for key in marker_keys_in_readme": a set of str is
\* iterated in an order that hash randomisation picks
InjectKey ==
    /\ pc = "loop"
    /\ \E key \in keys_todo :
         LET res == replace_between_markers(new_readme, key, InnerFor(badges_by_key, key))
         IN  IF ~res.ok
               THEN \* re.error leaves main
                    /\ Exit(1)
                    /\ UNCHANGED <<new_readme, keys_todo, key_order>>
               ELSE /\ new_readme' = res.text
                    /\ keys_todo' = keys_todo \ {key}
                    /\ key_order' = Append(key_order, key)
                    /\ pc' = IF keys_todo' = {} THEN "write" ELSE "loop"
                    /\ UNCHANGED exit_code
    /\ UNCHANGED <<projects_file, data, readme_file, pat, readme, marker_keys,
                   badges_by_key, seen_by_key, repos_needed, idx, ridx,
                   requests, writes, reached, replVars>>

\* step 7 without the comparison: README.md is rewritten in every run
WriteReadmeAlways ==
    /\ pc = "write"
    /\ reached' = reached \cup {"write"}
    /\ readme_file' = [present |-> TRUE, text |-> new_readme]
    /\ writes' = writes + 1
    /\ pc' = "exit" /\ exit_code' = 0
    /\ UNCHANGED <<projects_file, data, pat, readme, marker_keys,
                   keys_todo, badges_by_key, seen_by_key, repos_needed, idx, ridx,
                   requests, new_readme, key_order, replVars>>

\* 7) Write README only if changed; main returns
WriteReadme ==
    /\ pc = "write"
    /\ reached' = reached \cup {"write"}
    /\ IF new_readme # readme
         THEN /\ readme_file' = [present |-> TRUE, text |-> new_readme]
              /\ writes' = writes + 1
         ELSE UNCHANGED <<readme_file, writes>>
    /\ Exit(0)
    /\ UNCHANGED <<projects_file, data, pat, readme, marker_keys,
                   keys_todo, badges_by_key, seen_by_key, repos_needed, idx, ridx,
                   requests, new_readme, key_order, replVars>>

Next ==
    \/ LoadProjects \/ ReadReadme \/ ScanMarkers \/ GroupEntry
    \/ SkipEnsure \/ CheckRepo \/ CreateRepo
    \/ BeginInject \/ InjectKey \/ WriteReadme

Spec == Init /\ [][Next]_vars

----------------------------------------------------------------------------
(* SpecReplace: replace_between_markers on drawn inputs, applied twice *)

DocAlphabet == {Start("C", 1), End("C", 1), Ch("x"), LF}
InnerAlphabet == {Ch("x"), Ch("n"), Ch("1"), BS, LF, End("C", 1)}
NoResult == [ok |-> FALSE, text |-> <<Ch("unset")>>]

MainIdle ==
    /\ pc = "idle" /\ projects_file = "absent" /\ data = <<>>
    /\ readme_file = [present |-> FALSE, text |-> <<>>] /\ pat = FALSE
    /\ readme = <<>> /\ marker_keys = {} /\ keys_todo = {}
    /\ badges_by_key = <<>> /\ seen_by_key = <<>> /\ repos_needed = <<>>
    /\ idx = 0 /\ ridx = 0 /\ requests = <<>> /\ new_readme = <<>>
    /\ writes = 0 /\ exit_code = -1 /\ reached = {} /\ key_order = <<>>

InitReplace ==
    /\ MainIdle
    /\ rpc = "start"
    /\ rdoc \in SeqsUpTo(DocAlphabet, MaxDocLen)
    /\ rkey \in {"C", "python"}
    /\ rinner \in SeqsUpTo(InnerAlphabet, MaxInnerLen)
    /\ rout1 = NoResult /\ rout2 = NoResult

ReplaceOnce ==
    /\ rpc = "start"
    /\ rout1' = replace_between_markers(rdoc, rkey, rinner)
    /\ rpc' = IF rout1'.ok THEN "once" ELSE "raised"
    /\ UNCHANGED <<rdoc, rkey, rinner, rout2, mainVars>>

ReplaceTwice ==
    /\ rpc = "once"
    /\ rout2' = replace_between_markers(rout1.text, rkey, rinner)
    /\ rpc' = "twice"
    /\ UNCHANGED <<rdoc, rkey, rinner, rout1, mainVars>>

NextReplace == ReplaceOnce \/ ReplaceTwice
SpecReplace == InitReplace /\ [][NextReplace]_vars

----------------------------------------------------------------------------
(* Definitions the properties are stated with *)

Gets == SelectSeq(requests, LAMBDA r : r.method = "GET")
Posts == SelectSeq(requests, LAMBDA r : r.method = "POST")
Finished == pc = "exit"
\* the loop of step 5 is over
EnsureOver == "inject" \in reached \/ pc = "inject"

\* number of line breaks of a text
LineBreaks(text) == Cardinality({i \in 1..Len(text) : text[i] = LF})

RECURSIVE KeyOrders(_)
KeyOrders(S) ==
    IF S = {} THEN {<<>>}
    ELSE UNION {{<<k>> \o p : p \in KeyOrders(S \ {k})} : k \in S}

RECURSIVE InjectAll(_, _, _)
\* the loop of step 6 run over the keys in a given order
InjectAll(text, order, badges) ==
    IF order = <<>> THEN Ok(text)
    ELSE LET res == replace_between_markers(text, Head(order), InnerFor(badges, Head(order)))
         IN  IF res.ok THEN InjectAll(res.text, Tail(order), badges) ELSE Raised

RECURSIVE FirstRegion(_, _, _)
\* what lies between the first sentinel pair of key that the scan matches
FirstRegion(text, key, from) ==
    IF PairStarts(text, from) = {} THEN [found |-> FALSE, inner |-> <<>>]
    ELSE LET i == Min(PairStarts(text, from))
             j == Min(PairEnds(text, i))
         IN  IF text[i].k = key
               THEN [found |-> TRUE, inner |-> SubSeq(text, i + 1, j - 1)]
               ELSE FirstRegion(text, key, j + 1)

RECURSIVE ReferencedRepos(_)
\* the repo of every complete entry with a mapped language, in list order
ReferencedRepos(d) ==
    IF d = <<>> THEN <<>>
    ELSE LET e == Head(d)
             valid == e.dict /\ e.name # <<>> /\ e.repo # <<>>
                        /\ normalize_language(e.language) # "None"
         IN  (IF valid THEN <<e.repo>> ELSE <<>>) \o ReferencedRepos(Tail(d))

----------------------------------------------------------------------------
(* Properties of a run of main: specification Spec *)

\* C1: when the loop of step 6 is over, for every key the scan found the
\* region of the first sentinel pair of that key holds exactly the joined
\* badges of the key (nothing when the key has none).
C1_RegionsHoldBadges ==
    "write" \in reached =>
        \A key \in marker_keys :
            FirstRegion(new_readme, key, 1)
                = [found |-> TRUE, inner |-> InnerFor(badges_by_key, key)]

\* C2: a run that found projects.json to hold a list, and found README.md,
\* exits with status 0 (the claim names a list element that is no object
\* among the situations that do not end the run early).
C2_ListInputExitsZero ==
    Finished /\ projects_file = "list" /\ "scan" \in reached => exit_code = 0

\* C3 as claimed: no repository is checked twice and none is create-attempted
\* twice in a run.
C3_EachRepoOnce ==
    /\ \A i, j \in 1..Len(Gets) : i # j => Gets[i].repo # Gets[j].repo
    /\ \A i, j \in 1..Len(Posts) : i # j => Posts[i].repo # Posts[j].repo

\* C3 as amended: the reconciler takes the repo of every valid entry of the
\* list, in list order, duplicates included: the n-th existence check is for
\* the n-th valid entry, a finished loop has checked every one of them, and
\* there is at most one create request per check.
C3_OneCheckPerEntry ==
    /\ "ensure" \in reached \/ pc = "ensure" => repos_needed = ReferencedRepos(data)
    /\ Len(Gets) <= Len(repos_needed)
    /\ \A i \in 1..Len(Gets) : Gets[i].repo = repos_needed[i]
    /\ Len(Posts) <= Len(Gets)
    /\ EnsureOver /\ pat => Len(Gets) = Len(repos_needed)

C3_Witness ==
    /\ Finished /\ exit_code = 0
    /\ \E i, j \in 1..Len(Gets) : i < j /\ Gets[i].repo = Gets[j].repo

\* C6: with a credential, whatever the outcomes of the checks and the create
\* requests, a finished run has checked every repository reference, has
\* entered the document update, and exits with status 0.
C6_FailureIsolation ==
    Finished /\ pat /\ repos_needed # <<>> /\ "ensure" \in reached =>
        /\ Len(Gets) = Len(repos_needed)
        /\ "inject" \in reached
        /\ exit_code = 0

\* the document update of steps 6 and 7, as a relation between what the run
\* read and what it left: it mentions neither the credential nor the requests
DocumentUpdated ==
    /\ "inject" \in reached
    /\ InjectAll(readme, key_order, badges_by_key) = Ok(new_readme)
    /\ exit_code = 0 =>
          /\ {key_order[i] : i \in 1..Len(key_order)} = marker_keys
          /\ Len(key_order) = Cardinality(marker_keys)
          /\ "write" \in reached
          /\ readme_file.text = new_readme
    /\ exit_code # 0 =>
          /\ \E key \in keys_todo :
               ~replace_between_markers(new_readme, key, InnerFor(badges_by_key, key)).ok
          /\ readme_file.text = readme

\* C7: without a credential no request is ever issued, and a finished run
\* that came to step 5 has gone through the document update, whose result is
\* the one function of the text read, the badges and the key order that it is
\* with a credential.
C7_NoCredentialNoRequests ==
    /\ ~pat => requests = <<>>
    /\ Finished /\ "ensure" \in reached => DocumentUpdated

C7_Witness ==
    /\ Finished /\ ~pat /\ Len(repos_needed) = 2
    /\ writes = 1 /\ readme_file.text # readme

\* C8: README.md is written at most once; a finished run has written it
\* exactly when step 7 was reached with a text that differs from the text
\* read; what it wrote is that text; a run that exits with a non-zero status
\* has not written it.
C8_WriteOnlyIfChanged ==
    /\ writes <= 1
    /\ Finished => (writes = 1 <=> ("write" \in reached /\ new_readme # readme))
    /\ writes = 1 => readme_file.text = new_readme
    /\ exit_code > 0 => writes = 0

C8_Witness == Finished /\ writes = 1 /\ new_readme # readme

\* C9: every create request comes right after an existence check of the same
\* repository that returned 404.
C9_CreateOnlyAfter404 ==
    \A p \in 1..Len(requests) :
        requests[p].method = "POST" =>
            /\ p > 1
            /\ requests[p - 1] = [method |-> "GET", repo |-> requests[p].repo,
                                  outcome |-> "404"]

C9_Witness ==
    \E p \in 1..Len(requests) :
        requests[p].method = "POST" /\ requests[p].outcome = "422"

\* C10: the text the loop of step 6 ends with is the text every order of the
\* scanned keys gives.
C10_OrderIndependent ==
    "write" \in reached =>
        \A order \in KeyOrders(marker_keys) :
            InjectAll(readme, order, badges_by_key) = Ok(new_readme)

----------------------------------------------------------------------------
(* Properties of replace_between_markers: specification SpecReplace *)

\* C4: replacing twice with the same key and content gives the same document
\* as replacing once; stated here for the contents that hold no sentinel.
C4_Idempotent ==
    rpc = "twice" /\ (\A i \in 1..Len(rinner) : rinner[i].t = "CH") => rout2 = rout1

\* C5: replace_between_markers adds no line break: for a content that holds
\* no line break the document returned has no more line breaks than the
\* document given.
C5_NoLineBreakAdded ==
    rpc \in {"once", "twice"} /\ LineBreaks(rinner) = 0 =>
        LineBreaks(rout1.text) <= LineBreaks(rdoc)

====
